---- MODULE Spec2Model ----
(***************************************************************************)
(* Model of the unified ticket / presence dashboard:                       *)
(*   unified_dashboard.py  normalize_name, get_genesys_statuses_by_name,   *)
(*                         get_filtered_mta_tickets, main                  *)
(*   genesys_client.py     GenesysCloudClient                              *)
(*   mta_client.py         MtaClient, filter_tickets_by_status             *)
(*                                                                         *)
(* A Python str is a sequence of one-character strings.  None and a raised *)
(* IndexError are the one-element sequences <<"None">> and                 *)
(* <<"IndexError">>, which no str over Chars equals.                       *)
(***************************************************************************)
EXTENDS Integers, Sequences, FiniteSets, TLC

\* ------------------------------------------------------------------ bounds
MaxLen == 5

MaxRoster == 2

MaxStatuses == 2

MaxTickets == 2

MaxFilterLen == 3

MaxAllowed == 2

\* --------------------------------------------------------------- strings
Chars == {"a", "B", " ", "\t", ","}

None == <<"None">>

IndexError == <<"IndexError">>

Strings(n) == UNION {[1..k -> Chars] : k \in 0..n}

\* str.lower(), one character
LowerChar(c) == IF c = "B" THEN "b" ELSE c

\* str.lower()
lower(s) == [i \in 1..Len(s) |-> LowerChar(s[i])]

\* the characters str.strip() and str.split() treat as whitespace
IsSpace(c) == c \in {" ", "\t"}

RECURSIVE lstrip(_)
lstrip(s) == IF s # <<>> /\ IsSpace(Head(s)) THEN lstrip(Tail(s)) ELSE s

RECURSIVE rstrip(_)
rstrip(s) ==
    IF s # <<>> /\ IsSpace(s[Len(s)]) THEN rstrip(SubSeq(s, 1, Len(s) - 1)) ELSE s

\* str.strip()
strip(s) == rstrip(lstrip(s))

\* `sep in s`
Contains(s, sep) == \E i \in 1..Len(s) : s[i] = sep

\* str.split(sep): the segments between all occurrences of sep
RECURSIVE split(_, _)
split(s, sep) ==
    IF ~Contains(s, sep) THEN <<s>>
    ELSE LET i == CHOOSE k \in 1..Len(s) :
                      s[k] = sep /\ \A m \in 1..(k - 1) : s[m] # sep
         IN  <<SubSeq(s, 1, i - 1)>> \o split(SubSeq(s, i + 1, Len(s)), sep)

\* str.split() without argument: the maximal runs of non-whitespace
RECURSIVE split_ws(_)
split_ws(s) ==
    LET t == lstrip(s) IN
    IF t = <<>> THEN <<>>
    ELSE LET n == IF \E k \in 1..Len(t) : IsSpace(t[k])
                  THEN (CHOOSE k \in 1..Len(t) :
                            IsSpace(t[k]) /\ \A m \in 1..(k - 1) : ~IsSpace(t[m])) - 1
                  ELSE Len(t)
         IN  <<SubSeq(t, 1, n)>> \o split_ws(SubSeq(t, n + 1, Len(t)))

\* a variant of normalize_name that keeps the last comma-separated part
\* as the first-name segment
normalize_name_lastpart(name) ==
    IF name = None \/ name = <<>> THEN <<>>
    ELSE LET n == strip(lower(name)) IN
         IF Contains(n, ",")
         THEN LET parts            == split(n, ",")
                  last_name        == strip(parts[1])
                  first_name_parts == split_ws(strip(parts[Len(parts)]))
              IN  IF first_name_parts = <<>> THEN IndexError
                  ELSE first_name_parts[1] \o <<" ">> \o last_name
         ELSE n

\* normalize_name: the result, or IndexError when first_name_parts[0]
\* is taken of an empty list
normalize_name(name) ==
    IF name = None \/ name = <<>> THEN <<>>
    ELSE LET n == strip(lower(name)) IN
         IF Contains(n, ",")
         THEN LET parts            == split(n, ",")
                  last_name        == strip(parts[1])
                  first_name_parts == split_ws(strip(parts[2]))
              IN  IF first_name_parts = <<>> THEN IndexError
                  ELSE first_name_parts[1] \o <<" ">> \o last_name
         ELSE n

\* ------------------------------------------------------------ dictionaries
EmptyDict == [x \in {} |-> x]

\* a variant of dict_set that keeps an existing entry
dict_setdefault(d, k, v) ==
    [x \in DOMAIN d \cup {k} |-> IF x \in DOMAIN d THEN d[x] ELSE v]

\* d[k] = v
dict_set(d, k, v) == [x \in DOMAIN d \cup {k} |-> IF x = k THEN v ELSE d[x]]

\* d.get(k, default)
dict_get(d, k, default) == IF k \in DOMAIN d THEN d[k] ELSE default

\* `x in lst` for a list
InList(x, lst) == \E k \in 1..Len(lst) : lst[k] = x

\* ------------------------------------------------------------------ tickets
\* a variant of status_in that compares without regard to case
status_in_nocase(ticket, statuses) ==
    "status" \in DOMAIN ticket
    /\ \E k \in 1..Len(statuses) :
           IF ticket.status \in {"In Queue", "in queue"}
           THEN statuses[k] \in {"In Queue", "in queue"}
           ELSE statuses[k] = ticket.status

\* ticket.get("status") in statuses; get yields None for a missing key,
\* and None is in no list of str
status_in(ticket, statuses) ==
    "status" \in DOMAIN ticket /\ InList(ticket.status, statuses)

\* [ticket for ticket in tickets if ticket.get("status") in statuses]
RECURSIVE filter_tickets_by_status(_, _)
filter_tickets_by_status(tickets, statuses) ==
    IF tickets = <<>> THEN <<>>
    ELSE (IF status_in(Head(tickets), statuses) THEN <<Head(tickets)>> ELSE <<>>)
         \o filter_tickets_by_status(Tail(tickets), statuses)

\* the part of get_filtered_mta_tickets after client.get_tickets()
RECURSIVE filtered_list(_, _)
filtered_list(all_tickets, statuses) ==
    IF all_tickets = <<>> THEN <<>>
    ELSE (IF status_in(Head(all_tickets), statuses) THEN <<Head(all_tickets)>> ELSE <<>>)
         \o filtered_list(Tail(all_tickets), statuses)

\* target_mta_statuses
target_mta_statuses == <<"In Queue", "Analysis in Progress", "Updated by Customer">>

\* the default of genesys_statuses.get(normalized_owner, ...)
NA_MARK == "[grey50]N/A[/grey50]"

\* a variant of owner_status that looks the owner up without normalising
owner_status_raw(statuses_map, owner_name) ==
    dict_get(statuses_map, strip(lower(owner_name)), NA_MARK)

\* owner_status = genesys_statuses.get(normalize_name(owner_name), default)
owner_status(statuses_map, owner_name) ==
    dict_get(statuses_map, normalize_name(owner_name), NA_MARK)

\* the colouring of owner_status
status_cell(st) ==
    IF st = "ONLINE" THEN "[green]" \o st \o "[/green]"
    ELSE IF st \in {"BUSY", "AWAY", "MEAL"} THEN "[yellow]" \o st \o "[/yellow]"
    ELSE IF st = "OFFLINE" THEN "[red]" \o st \o "[/red]"
    ELSE st

\* ------------------------------------------------------------ input pools
Str_LastFirst == <<"a", ",", " ", "B">>

Str_FirstLast == <<"B", " ", "a">>

Str_NoFirst == <<"a", ",">>

Str_Other == <<"a">>

RosterNames == {Str_LastFirst, Str_FirstLast, Str_NoFirst, Str_Other, <<>>}

Ids == {1, 2}

Users == [id : Ids, name : RosterNames]

Presences == {"ONLINE", "OFFLINE"}

\* a presence record; one without presenceDefinition has no systemPresence
StatusRecords == [id : Ids, systemPresence : Presences] \cup [id : Ids]

OwnerNames == {Str_FirstLast, Str_LastFirst, Str_NoFirst, Str_Other}

TicketStatuses == {"In Queue", "in queue", "Closed"}

\* raw ticket records; a record may lack ownerFullName or status
Tickets ==
    [ownerFullName : OwnerNames, status : {"In Queue", "in queue"}]
        \cup {[ownerFullName |-> Str_Other], [status |-> "In Queue"]}

\* the tickets the filters are applied to in isolation
FilterTickets ==
    [ownerFullName : {Str_Other, Str_FirstLast}, status : TicketStatuses]
        \cup [ownerFullName : {Str_Other, Str_FirstLast}]

SeqsUpTo(S, n) == UNION {[1..k -> S] : k \in 0..n}

\* status.get('presenceDefinition', {}).get('systemPresence', 'N/A')
presence_of(status) ==
    IF "systemPresence" \in DOMAIN status THEN status.systemPresence ELSE "N/A"

\* {user['id']: user['name'] for user in users}
user_id_map_of(users) ==
    [id \in {users[k].id : k \in 1..Len(users)} |->
        LET last == CHOOSE k \in 1..Len(users) :
                        users[k].id = id
                        /\ \A m \in (k + 1)..Len(users) : users[m].id # id
        IN  users[last].name]

\* a variant of GenesysConfigOk that does not look at the region
GenesysConfigOk_noregion(c) == c.client_id /\ c.client_secret

\* all([client_id, client_secret, region])
GenesysConfigOk(c) == c.client_id /\ c.client_secret /\ c.region

\* all([token, ticket_url])
MtaConfigOk(c) == c.mta_token /\ c.mta_url

\* ------------------------------------------------------------------- state
VARIABLES
    n_pc, n_in, n_out, n_out2,          \* normalize_name in isolation
    f_pc, f_tickets, f_statuses,        \* the two status filters in isolation
    f_out_mta, f_out_dash,
    pc,                                 \* position in unified_dashboard.main
    cfg,                                \* which environment values are set
    token,                              \* GenesysCloudClient._token
    requests,                           \* network requests issued, in order
    failed,                             \* <<request, kind>> of failed requests
    user_id_map, statuses, i,           \* locals of get_genesys_statuses_by_name
    statuses_by_name,
    genesys_statuses,                   \* locals of main
    filtered_tickets, j,
    rows,                               \* rows added to the table
    printed,                            \* console.print(table) was reached
    errors                              \* error lines main printed

n_vars == <<n_pc, n_in, n_out, n_out2>>

f_vars == <<f_pc, f_tickets, f_statuses, f_out_mta, f_out_dash>>

g_vars == <<user_id_map, statuses, i, statuses_by_name>>

m_vars == <<pc, cfg, token, requests, failed, user_id_map, statuses, i,
            statuses_by_name, genesys_statuses, filtered_tickets, j, rows,
            printed, errors>>

vars == <<n_vars, f_vars, m_vars>>

Configs == [client_id : BOOLEAN, client_secret : BOOLEAN, region : BOOLEAN,
            mta_token : BOOLEAN, mta_url : BOOLEAN]

NormIdle == n_pc = "idle" /\ n_in = None /\ n_out = None /\ n_out2 = None

FilterIdle ==
    /\ f_pc = "idle"
    /\ f_tickets = <<>>
    /\ f_statuses = <<>>
    /\ f_out_mta = <<>>
    /\ f_out_dash = <<>>

MainLocalsInit ==
    /\ token = None
    /\ requests = <<>>
    /\ failed = {}
    /\ user_id_map = EmptyDict
    /\ statuses = <<>>
    /\ i = 1
    /\ statuses_by_name = EmptyDict
    /\ genesys_statuses = EmptyDict
    /\ filtered_tickets = <<>>
    /\ j = 1
    /\ rows = <<>>
    /\ printed = FALSE
    /\ errors = <<>>

MainIdle ==
    /\ pc = "idle"
    /\ cfg = [client_id |-> TRUE, client_secret |-> TRUE, region |-> TRUE,
              mta_token |-> TRUE, mta_url |-> TRUE]
    /\ MainLocalsInit

\* --------------------------------------------- normalisation, in isolation
NormInit ==
    /\ n_pc = "input"
    /\ n_in \in Strings(MaxLen) \cup {None}
    /\ n_out = None
    /\ n_out2 = None
    /\ FilterIdle
    /\ MainIdle

\* normalized = normalize_name(name)
NormApply ==
    /\ n_pc = "input"
    /\ n_out' = normalize_name(n_in)
    /\ n_pc' = IF n_out' = IndexError THEN "raised" ELSE "once"
    /\ UNCHANGED <<n_in, n_out2, f_vars, m_vars>>

\* normalize_name applied to a value it returned
NormReapply ==
    /\ n_pc = "once"
    /\ n_out2' = normalize_name(n_out)
    /\ n_pc' = IF n_out2' = IndexError THEN "raised" ELSE "twice"
    /\ UNCHANGED <<n_in, n_out, f_vars, m_vars>>

NormNext == NormApply \/ NormReapply

SpecNorm == NormInit /\ [][NormNext]_vars

\* ------------------------------------------------- filtering, in isolation
FilterInit ==
    /\ f_pc = "input"
    /\ f_tickets \in SeqsUpTo(FilterTickets, MaxFilterLen)
    /\ f_statuses \in SeqsUpTo(TicketStatuses, MaxAllowed)
    /\ f_out_mta = <<>>
    /\ f_out_dash = <<>>
    /\ NormIdle
    /\ MainIdle

\* mta_client.filter_tickets_by_status(tickets, statuses)
FilterMta ==
    /\ f_pc = "input"
    /\ f_out_mta' = filter_tickets_by_status(f_tickets, f_statuses)
    /\ f_pc' = "mta"
    /\ UNCHANGED <<f_tickets, f_statuses, f_out_dash, n_vars, m_vars>>

\* the filtering of get_filtered_mta_tickets on the same tickets
FilterDashboard ==
    /\ f_pc = "mta"
    /\ f_out_dash' = filtered_list(f_tickets, f_statuses)
    /\ f_pc' = "both"
    /\ UNCHANGED <<f_tickets, f_statuses, f_out_mta, n_vars, m_vars>>

FilterNext == FilterMta \/ FilterDashboard

SpecFilter == FilterInit /\ [][FilterNext]_vars

\* ------------------------------------------------- unified_dashboard.main
Init ==
    /\ pc = "init_clients"
    /\ cfg \in Configs
    /\ MainLocalsInit
    /\ NormIdle
    /\ FilterIdle

\* an exception reached `except Exception` of main
Unexpected ==
    /\ errors' = Append(errors, "An unexpected error occurred")
    /\ pc' = "done"

\* GenesysCloudClient(...) and MtaClient(...): ValueError on a missing value
InitClients ==
    /\ pc = "init_clients"
    /\ IF GenesysConfigOk(cfg) /\ MtaConfigOk(cfg)
       THEN pc' = "queue" /\ UNCHANGED errors
       ELSE pc' = "done" /\ errors' = Append(errors, "Configuration Error")
    /\ UNCHANGED <<cfg, token, requests, failed, g_vars, genesys_statuses,
                   filtered_tickets, j, rows, printed, n_vars, f_vars>>

\* get_genesys_statuses_by_name returns {} without running the loop
ReturnEmpty ==
    /\ genesys_statuses' = EmptyDict
    /\ pc' = "tickets"
    /\ UNCHANGED errors

\* client.get_queue_id_by_name(queue_name), with the token request that
\* _get_headers makes first.  tok and res are the outcomes of the requests.
GetQueueId(tok, res) ==
    /\ pc = "queue"
    /\ token = None
    /\ IF tok = "ok"
       THEN /\ token' = <<"t">>
            /\ requests' = requests \o <<"token", "queue">>
            /\ failed' = IF res \in {"http", "net"}
                         THEN failed \cup {<<"queue", res>>} ELSE failed
            /\ CASE res = "found" ->
                        pc' = "users" /\ UNCHANGED <<errors, genesys_statuses>>
                 [] res \in {"notfound", "http"} -> ReturnEmpty
                 [] res = "net" -> Unexpected /\ UNCHANGED genesys_statuses
       ELSE /\ token' = None
            /\ requests' = Append(requests, "token")
            /\ failed' = failed \cup {<<"token", tok>>}
            /\ IF tok = "http"
               \* HTTPStatusError re-raised by _get_auth_token is caught by
               \* the except clause of get_queue_id_by_name
               THEN ReturnEmpty
               ELSE Unexpected /\ UNCHANGED genesys_statuses
    /\ UNCHANGED <<cfg, g_vars, filtered_tickets, j, rows, printed,
                   n_vars, f_vars>>

\* client.get_users_in_queue(queue_id) and the building of user_id_map
GetUsers(res, users) ==
    /\ pc = "users"
    /\ requests' = Append(requests, "users")
    /\ failed' = IF res = "ok" THEN failed ELSE failed \cup {<<"users", res>>}
    /\ CASE res = "ok" /\ users # <<>> ->
                /\ user_id_map' = user_id_map_of(users)
                /\ pc' = "statuses"
                /\ UNCHANGED <<errors, genesys_statuses>>
         [] res = "http" \/ (res = "ok" /\ users = <<>>) ->
                ReturnEmpty /\ UNCHANGED user_id_map
         [] res = "net" ->
                Unexpected /\ UNCHANGED <<user_id_map, genesys_statuses>>
    /\ UNCHANGED <<cfg, token, statuses, i, statuses_by_name,
                   filtered_tickets, j, rows, printed, n_vars, f_vars>>

\* client.get_user_statuses(user_ids); user_ids is not empty here
GetUserStatuses(res, recs) ==
    /\ pc = "statuses"
    /\ requests' = Append(requests, "presence")
    /\ failed' = IF res = "ok" THEN failed ELSE failed \cup {<<"presence", res>>}
    /\ CASE res = "ok" ->
                /\ statuses' = recs
                /\ pc' = "loop"
                /\ UNCHANGED errors
         [] res = "http" ->
                /\ statuses' = <<>>
                /\ pc' = "loop"
                /\ UNCHANGED errors
         [] res = "net" -> Unexpected /\ UNCHANGED statuses
    /\ i' = 1
    /\ statuses_by_name' = EmptyDict
    /\ UNCHANGED <<cfg, token, user_id_map, genesys_statuses,
                   filtered_tickets, j, rows, printed, n_vars, f_vars>>

\* one iteration of `for status in statuses`
LoopStep ==
    /\ pc = "loop"
    /\ i <= Len(statuses)
    /\ LET status    == statuses[i]
           user_name == dict_get(user_id_map, status.id, None)
       IN  IF user_name = None \/ user_name = <<>>
           THEN UNCHANGED <<statuses_by_name, errors, pc>> /\ i' = i + 1
           ELSE IF normalize_name(user_name) = IndexError
           THEN Unexpected /\ UNCHANGED <<statuses_by_name, i>>
           ELSE /\ statuses_by_name' =
                      dict_set(statuses_by_name, normalize_name(user_name),
                               presence_of(status))
                /\ i' = i + 1
                /\ UNCHANGED <<errors, pc>>
    /\ UNCHANGED <<cfg, token, requests, failed, user_id_map, statuses,
                   genesys_statuses, filtered_tickets, j, rows, printed,
                   n_vars, f_vars>>

\* return statuses_by_name; the locals go out of scope
LoopReturn ==
    /\ pc = "loop"
    /\ i > Len(statuses)
    /\ genesys_statuses' = statuses_by_name
    /\ user_id_map' = EmptyDict
    /\ statuses' = <<>>
    /\ i' = 1
    /\ statuses_by_name' = EmptyDict
    /\ pc' = "tickets"
    /\ UNCHANGED <<cfg, token, requests, failed, filtered_tickets, j, rows,
                   printed, errors, n_vars, f_vars>>

\* get_filtered_mta_tickets(mta_client, target_mta_statuses): get_tickets
\* returns [] on HTTPStatusError and on RequestError
GetFilteredTickets(res, tickets) ==
    /\ pc = "tickets"
    /\ requests' = Append(requests, "tickets")
    /\ failed' = IF res = "ok" THEN failed ELSE failed \cup {<<"tickets", res>>}
    /\ filtered_tickets' =
           filtered_list(IF res = "ok" THEN tickets ELSE <<>>, target_mta_statuses)
    /\ pc' = IF filtered_tickets' = <<>> THEN "done" ELSE "rows"
    /\ UNCHANGED <<cfg, token, g_vars, genesys_statuses, j, rows, printed,
                   errors, n_vars, f_vars>>

\* one iteration of `for ticket in filtered_tickets`
RowStep ==
    /\ pc = "rows"
    /\ j <= Len(filtered_tickets)
    /\ LET ticket     == filtered_tickets[j]
           owner_name == dict_get(ticket, "ownerFullName", <<>>)
       IN  IF normalize_name(owner_name) = IndexError
           THEN Unexpected /\ UNCHANGED <<rows, j>>
           ELSE /\ rows' = Append(rows,
                        [ticket       |-> ticket,
                         owner_name   |-> owner_name,
                         owner_status |-> owner_status(genesys_statuses, owner_name),
                         status_cell  |->
                             status_cell(owner_status(genesys_statuses, owner_name))])
                /\ j' = j + 1
                /\ UNCHANGED <<errors, pc>>
    /\ UNCHANGED <<cfg, token, requests, failed, g_vars, genesys_statuses,
                   filtered_tickets, printed, n_vars, f_vars>>

\* console.print(table)
PrintTable ==
    /\ pc = "rows"
    /\ j > Len(filtered_tickets)
    /\ printed' = TRUE
    /\ pc' = "done"
    /\ UNCHANGED <<cfg, token, requests, failed, g_vars, genesys_statuses,
                   filtered_tickets, j, rows, errors, n_vars, f_vars>>

Next ==
    \/ InitClients
    \/ \E tok \in {"ok", "http", "net"}, res \in {"found", "notfound", "http", "net"} :
           GetQueueId(tok, res)
    \/ \E res \in {"ok", "http", "net"}, users \in SeqsUpTo(Users, MaxRoster) :
           GetUsers(res, users)
    \/ \E res \in {"ok", "http", "net"}, recs \in SeqsUpTo(StatusRecords, MaxStatuses) :
           GetUserStatuses(res, recs)
    \/ LoopStep
    \/ LoopReturn
    \/ \E res \in {"ok", "http", "net"}, tickets \in SeqsUpTo(Tickets, MaxTickets) :
           GetFilteredTickets(res, tickets)
    \/ RowStep
    \/ PrintTable

Spec == Init /\ [][Next]_vars

\* ------------------------------------------------------------- properties
\* the greatest element of a non-empty set of integers
MaxOf(S) == CHOOSE x \in S : \A y \in S : y <= x

\* index of the first comma of s
FirstComma(s) == CHOOSE k \in 1..Len(s) : s[k] = "," /\ \A m \in 1..(k - 1) : s[m] # ","

\* the text before the first comma, lower-cased and trimmed
LastNameOf(s) == strip(lower(SubSeq(s, 1, FirstComma(s) - 1)))

\* everything after the first comma
AfterFirstComma(s) == SubSeq(s, FirstComma(s) + 1, Len(s))

\* the text between the first comma and the next comma, or the end
SecondSegment(s) ==
    LET rest == AfterFirstComma(s) IN
    IF Contains(rest, ",") THEN SubSeq(rest, 1, FirstComma(rest) - 1) ELSE rest

HasComma(s) == s # None /\ Contains(s, ",")

Applied == n_pc \in {"once", "twice", "raised"}

\* C3 (as stated): for an input with a comma, normalize_name returns
\* "{given} {last}", last the trimmed lower-cased text before the first comma,
\* given the first whitespace-delimited token of everything after the first
\* comma.  Stated of the inputs on which normalize_name returns.
C3_FirstCommaOnly ==
    (n_pc \in {"once", "twice"} /\ HasComma(n_in) /\ split_ws(lower(AfterFirstComma(n_in))) # <<>>)
        => n_out = split_ws(lower(AfterFirstComma(n_in)))[1]
                       \o <<" ">> \o LastNameOf(n_in)

\* C3 (amended): for an input with a comma whose text between the first comma
\* and the next comma (or the end) holds a non-whitespace character,
\* normalize_name returns "{given} {last}", last the trimmed lower-cased text
\* before the first comma, given the first whitespace-delimited token of the
\* text between the first and the next comma; what follows a second comma is
\* dropped.
C3_SecondCommaSplits ==
    (Applied /\ HasComma(n_in) /\ split_ws(lower(SecondSegment(n_in))) # <<>>)
        => n_out = split_ws(lower(SecondSegment(n_in)))[1]
                       \o <<" ">> \o LastNameOf(n_in)

C3_Witness ==
    /\ n_pc = "twice"
    /\ n_in = <<"a", ",", "B", ",", "a">>
    /\ n_out = <<"b", " ", "a">>

\* C4: normalize_name is total: it returns a string for every input and never
\* raises; an empty or None input gives the empty string.
C4_Total ==
    /\ n_pc # "raised"
    /\ (Applied /\ n_in \in {None, <<>>}) => n_out = <<>>

\* C6: every value normalize_name returns is a fixed point of normalize_name.
C6_Idempotent == n_pc = "twice" => n_out2 = n_out

\* the positions of the tickets whose status is exactly one of the allowed
KeptIdx(tickets, allowed) ==
    {k \in 1..Len(tickets) :
        /\ "status" \in DOMAIN tickets[k]
        /\ tickets[k].status \in {allowed[m] : m \in 1..Len(allowed)}}

\* out is the tickets at the kept positions, in increasing position
IsOrderedSelection(out, tickets, allowed) ==
    LET kept == KeptIdx(tickets, allowed) IN
    /\ Len(out) = Cardinality(kept)
    /\ \A n \in 1..Len(out) :
           out[n] = tickets[CHOOSE k \in kept :
                                Cardinality({m \in kept : m <= k}) = n]

\* C5: both filters keep a ticket iff its status is exactly (case-sensitively)
\* one of the allowed statuses, and the kept tickets stay in input order.
C5_FilterExact ==
    /\ f_pc \in {"mta", "both"} =>
           IsOrderedSelection(f_out_mta, f_tickets, f_statuses)
    /\ f_pc = "both" =>
           IsOrderedSelection(f_out_dash, f_tickets, f_statuses)

C5_Witness ==
    /\ f_pc = "both"
    /\ f_statuses = <<"In Queue">>
    /\ Len(f_tickets) = 3
    /\ f_tickets[1] = [ownerFullName |-> Str_Other, status |-> "In Queue"]
    /\ f_tickets[2] = [ownerFullName |-> Str_Other, status |-> "in queue"]
    /\ f_tickets[3] = [ownerFullName |-> Str_FirstLast, status |-> "In Queue"]
    /\ f_out_mta = <<f_tickets[1], f_tickets[3]>>
    /\ f_out_dash = <<f_tickets[1], f_tickets[3]>>

OwnerOf(ticket) == IF "ownerFullName" \in DOMAIN ticket THEN ticket.ownerFullName ELSE <<>>

Aborted == pc = "done" /\ errors = <<"An unexpected error occurred">>

Requested(r) == \E k \in 1..Len(requests) : requests[k] = r

\* C1: every row carries genesys_statuses[normalize_name(owner)] when that
\* key is in the map and the unknown marker otherwise; with an empty map every
\* row carries the unknown marker; the lookup does not raise (the row loop
\* stops early only where normalize_name raised), and a printed table has a
\* row for every filtered ticket.
C1_RowsResolved ==
    /\ Len(rows) <= Len(filtered_tickets)
    /\ \A k \in 1..Len(rows) :
           LET key == normalize_name(OwnerOf(filtered_tickets[k])) IN
           /\ key # IndexError
           /\ key \in DOMAIN genesys_statuses
                  => rows[k].owner_status = genesys_statuses[key]
           /\ key \notin DOMAIN genesys_statuses
                  => rows[k].owner_status = NA_MARK
           /\ genesys_statuses = EmptyDict => rows[k].owner_status = NA_MARK
    /\ printed => Len(rows) = Len(filtered_tickets)
    /\ (Aborted /\ Requested("tickets")) =>
           /\ j <= Len(filtered_tickets)
           /\ normalize_name(OwnerOf(filtered_tickets[j])) = IndexError

C1_Witness ==
    /\ printed
    /\ genesys_statuses # EmptyDict
    /\ \E k \in 1..Len(rows) :
           /\ rows[k].owner_name = Str_LastFirst
           /\ rows[k].owner_status \in Presences
    /\ \E k \in 1..Len(rows) : rows[k].owner_status = NA_MARK

\* the report the run produced
Emitted == IF printed THEN rows ELSE <<>>

\* C2: once the tickets are fetched, the finished run has emitted exactly one
\* row per filtered ticket, in the order of the filtered tickets.
C2_OneRowPerTicket ==
    (pc = "done" /\ Requested("tickets")) =>
        /\ Len(Emitted) = Len(filtered_tickets)
        /\ \A k \in 1..Len(Emitted) : Emitted[k].ticket = filtered_tickets[k]

\* the presence record at position k belongs to a roster member with a name
NamedAt(k) ==
    /\ statuses[k].id \in DOMAIN user_id_map
    /\ user_id_map[statuses[k].id] # <<>>

\* positions among the first n presence records whose member normalises to key
RecordsFor(key, n) ==
    {k \in 1..n : NamedAt(k) /\ normalize_name(user_id_map[statuses[k].id]) = key}

\* C7: in the loop of get_genesys_statuses_by_name the map holds, for each
\* key, the presence of the last processed record whose roster member
\* normalises to that key, every processed named record has its key in the
\* map, and the loop raises only where normalize_name raised, never on a
\* collision.
C7_LastWriteWins ==
    /\ pc = "loop" =>
           /\ \A key \in DOMAIN statuses_by_name :
                  /\ RecordsFor(key, i - 1) # {}
                  /\ statuses_by_name[key] =
                         presence_of(statuses[MaxOf(RecordsFor(key, i - 1))])
           /\ \A k \in 1..(i - 1) :
                  NamedAt(k) =>
                      normalize_name(user_id_map[statuses[k].id])
                          \in DOMAIN statuses_by_name
    /\ (Aborted /\ requests[Len(requests)] = "presence"
            /\ <<"presence", "net">> \notin failed) =>
           /\ i <= Len(statuses)
           /\ NamedAt(i)
           /\ normalize_name(user_id_map[statuses[i].id]) = IndexError

C7_Witness ==
    /\ pc = "loop"
    /\ i > Len(statuses)
    /\ \E a, b \in 1..Len(statuses) :
           /\ a < b
           /\ statuses[a].id # statuses[b].id
           /\ NamedAt(a) /\ NamedAt(b)
           /\ user_id_map[statuses[a].id] = Str_LastFirst
           /\ user_id_map[statuses[b].id] = Str_FirstLast
           /\ presence_of(statuses[a]) = "ONLINE"
           /\ presence_of(statuses[b]) = "OFFLINE"
           /\ DOMAIN statuses_by_name = {<<"b", " ", "a">>}
           /\ statuses_by_name[<<"b", " ", "a">>] = "OFFLINE"

\* C8: a failed queue lookup, roster fetch, presence fetch or ticket fetch
\* never keeps the run from fetching the tickets.
C8_OtherSourceStillFetched ==
    (pc = "done" /\ \E f \in failed : f[1] # "token") => Requested("tickets")

\* C9: after a failed token request no report rows are produced.
C9_AuthFailureFatal ==
    (\E f \in failed : f[1] = "token") => rows = <<>>

ConfigMissing == \E k \in DOMAIN cfg : ~cfg[k]

\* C10: with a required credential or URL missing, no network request is
\* ever issued, no row is produced, nothing is printed, and the run ends with
\* exactly one configuration error.
C10_ConfigFatal ==
    ConfigMissing =>
        /\ requests = <<>>
        /\ rows = <<>>
        /\ ~printed
        /\ pc \in {"init_clients", "done"}
        /\ pc = "init_clients" => errors = <<>>
        /\ pc = "done" => errors = <<"Configuration Error">>

C10_Witness ==
    /\ pc = "done"
    /\ ~cfg.region
    /\ cfg.client_id /\ cfg.client_secret /\ cfg.mta_token /\ cfg.mta_url
    /\ errors = <<"Configuration Error">>

====
